---- MODULE Spec2Model ----
(***************************************************************************)
(* A model of the blinky render client (src/src/client.rs) and of the      *)
(* process entry point (src/src/main.rs).                                  *)
(*                                                                         *)
(* One thread runs everything.  `pc` is its position: the fallible steps   *)
(* of Client::new, the event loop waiting for the next callback ("idle"),  *)
(* and the statements of Client::draw, which are kept as separate steps so *)
(* that the states inside a Draw can be inspected.                         *)
(*                                                                         *)
(* The application shell (mod app, src/src/main.rs:3) is not part of the   *)
(* sources at hand.  It is modelled, from the specification text, as a     *)
(* driver that hands window events and idle ticks to the client one at a   *)
(* time, and that leaves the loop once event_loop.exit() has been called.  *)
(***************************************************************************)
EXTENDS Integers, Sequences, FiniteSets

\* ---------------------------------------------------------------- bounds
\* Largest window width/height the windowing system reports.
MaxDim == 2
\* Largest reading of the monotonic clock.
MaxTime == 1
\* Number of Draws a behaviour may start.
MaxFrames == 4

\* ------------------------------------------------------- program constants
\* The modulus of the colour index update, client.rs:146.
CycleLen == 3

Dims == 1..MaxDim
Sizes == [width : Dims, height : Dims]
NoSize == [width |-> 0, height |-> 0]

\* wgpu::Color {r, g, b, a} as a tuple.
Color(r, g, b, a) == <<r, g, b, a>>
NoColor == <<>>

\* Texture formats a surface may report, and which of them are sRGB.
Formats == {"Bgra8UnormSrgb", "Bgra8Unorm"}
is_srgb(f) == f = "Bgra8UnormSrgb"
\* The non-empty format lists the surface capabilities may hold.
FormatLists == {<<"Bgra8UnormSrgb">>, <<"Bgra8Unorm">>,
                <<"Bgra8Unorm", "Bgra8UnormSrgb">>}

NoConfig == [width |-> 0, height |-> 0, format |-> "none", present_mode |-> "none"]

VARIABLES
  pc,             \* position of the (single) thread
  event,          \* kind of the callback being handled / handled last
  window,         \* "none" | "ok"     : the winit window
  surface,        \* "none" | "ok"     : the wgpu surface
  adapter,        \* "none" | "ok"     : the wgpu adapter
  device,         \* "none" | "ok"     : the wgpu device and queue
  attempts,       \* how often each fallible set-up call has been made
  inner_size,     \* `size`: window.inner_size() as read by Client::new
  constructed,    \* a Client value exists (Client::new returned)
  \* -- fields of Client (meaningless until constructed) --
  exit,           \* Client.exit
  prev_update,    \* Client.prev_update
  frame_target,   \* Client.frame_target
  config,         \* Client.config
  color,          \* Client.color
  encoder,        \* Client.encoder: id of the encoder held by the field
  \* -- locals of Client::draw --
  enc,            \* `encoder`: id of the encoder taken from the field, 0 if none
  output,         \* `output`: size of the acquired surface texture, NoSize if none
  c,              \* `c`: the clear colour selected for this frame
  recorded,       \* clear colour of the render pass recorded in `enc`
  \* -- GPU / windowing system --
  live,           \* ids of the command encoders created and not yet finished
  surface_config, \* the configuration last given to surface.configure
  queue,          \* command buffers submitted to the queue, in order
  presented,      \* number of textures presented
  redraw_pending, \* window.request_redraw() called and not yet delivered
  loop_exiting,   \* event_loop.exit() has been called
  clock,          \* last reading of Instant::now()
  \* -- history --
  last_resize,    \* size of the last Resized event delivered, NoSize if none
  close_delivered,\* a CloseRequested event has been delivered
  exit_called,    \* the last update called event_loop.exit()
  requests,       \* number of window.request_redraw() calls
  indices,        \* colour index at the entry of each Draw, in order
  steps           \* the operations the current (or last) Draw has performed

fields == <<exit, prev_update, frame_target, config, color, encoder>>
locals == <<enc, output, c, recorded>>
setup == <<window, surface, adapter, device, attempts, inner_size, constructed>>
gpu == <<live, surface_config, queue, presented>>
shell == <<redraw_pending, loop_exiting, clock>>
history == <<last_resize, close_delivered, exit_called, requests, indices, steps>>
vars == <<pc, event, setup, fields, locals, gpu, shell, history>>

SetupCalls == {"event_loop", "create_window", "create_surface",
               "request_adapter", "request_device"}

Init ==
  /\ pc = "main"
  /\ event = "none"
  /\ window = "none" /\ surface = "none" /\ adapter = "none" /\ device = "none"
  /\ attempts = [s \in SetupCalls |-> 0]
  /\ inner_size = NoSize
  /\ constructed = FALSE
  /\ exit = FALSE /\ prev_update = 0 /\ frame_target = 0
  /\ config = NoConfig /\ color = 0 /\ encoder = 0
  /\ enc = 0 /\ output = NoSize /\ c = NoColor /\ recorded = NoColor
  /\ live = {} /\ surface_config = NoConfig /\ queue = <<>> /\ presented = 0
  /\ redraw_pending = FALSE /\ loop_exiting = FALSE /\ clock = 0
  /\ last_resize = NoSize /\ close_delivered = FALSE /\ exit_called = FALSE
  /\ requests = 0 /\ indices = <<>> /\ steps = <<>>

\* A panic: `expect`/`unwrap` on a failure.  Nothing else runs afterwards.
Abort == pc' = "aborted"

Attempt(call) == attempts' = [attempts EXCEPT ![call] = @ + 1]

\* ------------------------------------------------------------ main / new

\* main.rs:10  EventLoop::new().expect(..); run_app then has the shell build
\* the client.
MainEventLoopNew ==
  /\ pc = "main"
  /\ Attempt("event_loop")
  /\ \E ok \in BOOLEAN : IF ok THEN pc' = "new_window" ELSE Abort
  /\ UNCHANGED <<event, window, surface, adapter, device, inner_size,
                 constructed, fields, locals, gpu, shell, history>>

\* client.rs:29-35  create_window(..).expect(..); window.inner_size()
CreateWindow ==
  /\ pc = "new_window"
  /\ Attempt("create_window")
  /\ \E ok \in BOOLEAN :
       IF ok
         THEN /\ window' = "ok"
              /\ \E size \in Sizes : inner_size' = size
              /\ pc' = "new_surface"
         ELSE /\ Abort
              /\ UNCHANGED <<window, inner_size>>
  /\ UNCHANGED <<event, surface, adapter, device, constructed, fields, locals,
                 gpu, shell, history>>

\* client.rs:37-44  instance.create_surface(window.clone()).expect(..)
CreateSurface ==
  /\ pc = "new_surface"
  /\ Attempt("create_surface")
  /\ \E ok \in BOOLEAN :
       IF ok THEN surface' = "ok" /\ pc' = "new_adapter"
             ELSE Abort /\ UNCHANGED surface
  /\ UNCHANGED <<event, window, adapter, device, inner_size, constructed, fields,
                 locals,
                 gpu, shell, history>>

\* A request_adapter whose failure is ignored.
RequestAdapter_Unchecked ==
  /\ pc = "new_adapter"
  /\ Attempt("request_adapter")
  /\ \E ok \in BOOLEAN : adapter' = IF ok THEN "ok" ELSE "none"
  /\ pc' = "new_device"
  /\ UNCHANGED <<event, window, surface, device, inner_size, constructed, fields,
                 locals,
                 gpu, shell, history>>

\* client.rs:46-51  block_on(instance.request_adapter(..)).expect(..)
RequestAdapter ==
  /\ pc = "new_adapter"
  /\ Attempt("request_adapter")
  /\ \E ok \in BOOLEAN :
       IF ok THEN adapter' = "ok" /\ pc' = "new_device"
             ELSE Abort /\ UNCHANGED adapter
  /\ UNCHANGED <<event, window, surface, device, inner_size, constructed, fields,
                 locals,
                 gpu, shell, history>>

\* client.rs:53-71  block_on(adapter.request_device(..)).expect(..)
RequestDevice ==
  /\ pc = "new_device"
  /\ Attempt("request_device")
  /\ \E ok \in BOOLEAN :
       IF ok THEN device' = "ok" /\ pc' = "new_config"
             ELSE Abort /\ UNCHANGED device
  /\ UNCHANGED <<event, window, surface, adapter, inner_size, constructed, fields,
                 locals,
                 gpu, shell, history>>

\* client.rs:80-85  the first sRGB format, else the first format
surface_format(formats) ==
  IF \E i \in 1..Len(formats) : is_srgb(formats[i])
    THEN formats[CHOOSE i \in 1..Len(formats) :
                   /\ is_srgb(formats[i])
                   /\ \A j \in 1..(i - 1) : ~is_srgb(formats[j])]
    ELSE formats[1]

\* client.rs:116-120  a new, unfinished command encoder; ids count up.
create_encoder == encoder + 1

\* client.rs:73-113  surface capabilities, SurfaceConfiguration,
\* surface.configure, and the Client value itself
Construct ==
  /\ pc = "new_config"
  /\ \E formats \in FormatLists, t1 \in clock..MaxTime :
       \E t2 \in t1..MaxTime :
         /\ config' = [width |-> inner_size.width,
                       height |-> inner_size.height,
                       format |-> surface_format(formats),
                       present_mode |-> "AutoVsync"]
         /\ prev_update' = t1
         /\ frame_target' = t2
         /\ clock' = t2
  /\ surface_config' = config'
  /\ exit' = FALSE
  /\ encoder' = create_encoder
  /\ live' = live \cup {create_encoder}
  /\ color' = 0
  /\ constructed' = TRUE
  /\ pc' = "idle"
  /\ UNCHANGED <<event, window, surface, adapter, device, attempts,
                 inner_size, locals, queue, presented, redraw_pending, loop_exiting, history>>

\* ------------------------------------------------------------ the shell

\* The shell hands the client a callback only between callbacks, and only
\* once the client exists.
Dispatch == pc = "idle" /\ constructed

\* The event loop returns once event_loop.exit() has been called.
LoopExits ==
  /\ Dispatch
  /\ loop_exiting
  /\ pc' = "exited"
  /\ UNCHANGED <<event, setup, fields, locals, gpu, shell, history>>

\* ------------------------------------------------------------ window_event

\* client.rs:170  WindowEvent::CloseRequested => self.exit = true
WindowEventClose ==
  /\ Dispatch
  /\ event' = "close"
  /\ close_delivered' = TRUE
  /\ exit' = TRUE
  /\ UNCHANGED <<pc, setup, prev_update, frame_target, config, color, encoder,
                 locals, gpu, shell, last_resize, exit_called, requests,
                 indices, steps>>

\* A resize that updates the stored configuration but never hands it to the
\* surface.
resize_NoConfigure(size) ==
  /\ config' = [config EXCEPT !.width = size.width, !.height = size.height]
  /\ UNCHANGED <<surface_config, color>>

\* A resize that also restarts the colour cycle.
resize_ResetColor(size) ==
  /\ config' = [config EXCEPT !.width = size.width, !.height = size.height]
  /\ surface_config' = config'
  /\ color' = 0

\* client.rs:180-184  Client::resize
resize(size) ==
  /\ config' = [config EXCEPT !.width = size.width, !.height = size.height]
  /\ surface_config' = config'
  /\ UNCHANGED color

\* client.rs:171  WindowEvent::Resized(size) => self.resize(size)
WindowEventResize ==
  /\ Dispatch
  /\ event' = "resize"
  /\ \E size \in Sizes :
       /\ last_resize' = size
       /\ resize(size)
  /\ UNCHANGED <<pc, setup, exit, prev_update, frame_target, encoder, locals,
                 live, queue, presented, shell, close_delivered, exit_called,
                 requests, indices, steps>>

\* An event of another kind that clears the terminate flag.
WindowEventOther_ClearsExit ==
  /\ Dispatch
  /\ event' = "other"
  /\ exit' = FALSE
  /\ UNCHANGED <<pc, setup, prev_update, frame_target, config, color, encoder,
                 locals, gpu, shell, history>>

\* client.rs:176  _ => ()
WindowEventOther ==
  /\ Dispatch
  /\ event' = "other"
  /\ UNCHANGED <<pc, setup, fields, locals, gpu, shell, history>>

\* ------------------------------------------------------------ update

\* A tick that leaves the loop whatever the flag says.
Update_AlwaysExit ==
  /\ Dispatch
  /\ event' = "tick"
  /\ \E now \in clock..MaxTime :
       /\ clock' = now
       /\ prev_update' = now
  /\ exit_called' = TRUE
  /\ loop_exiting' = TRUE
  /\ UNCHANGED <<pc, setup, exit, frame_target, config, color, encoder, locals,
                 gpu, redraw_pending, last_resize, close_delivered, requests,
                 indices, steps>>

\* client.rs:122-130  Client::update
Update ==
  /\ Dispatch
  /\ event' = "tick"
  /\ \E now \in clock..MaxTime :
       LET dt == now - prev_update
       IN  /\ clock' = now
           /\ prev_update' = now
  /\ exit_called' = exit
  /\ loop_exiting' = (loop_exiting \/ exit)
  /\ UNCHANGED <<pc, setup, exit, frame_target, config, color, encoder, locals,
                 gpu, redraw_pending, last_resize, close_delivered, requests,
                 indices, steps>>

\* ------------------------------------------------------------ draw

\* client.rs:139-144  the clear colour of a colour index
ColorOf(i) ==
  CASE i = 0 -> Color(1, 0, 0, 1)
    [] i = 1 -> Color(0, 1, 0, 1)
    [] i = 2 -> Color(0, 0, 1, 1)
    [] OTHER -> Color(1, 0, 1, 1)

\* client.rs:146  the next colour index (u32; color < CycleLen, so the
\* addition cannot wrap)
NextColor(i) == (i + 1) % CycleLen

DrawPcs == {"draw_acquire", "draw_select", "draw_advance", "draw_pass",
            "draw_submit", "draw_present"}

\* client.rs:172-173 and 133  WindowEvent::RedrawRequested => self.draw():
\* the encoder held by the field is taken and a fresh one put in its place.
WindowEventRedraw ==
  /\ Dispatch
  /\ Len(indices) < MaxFrames
  /\ event' = "redraw"
  /\ redraw_pending' = FALSE
  /\ enc' = encoder
  /\ encoder' = create_encoder
  /\ live' = live \cup {create_encoder}
  /\ indices' = Append(indices, color)
  /\ steps' = <<>>
  /\ pc' = "draw_acquire"
  /\ UNCHANGED <<setup, exit, prev_update, frame_target, config, color,
                 output, c, recorded, surface_config, queue, presented,
                 loop_exiting, clock, last_resize, close_delivered,
                 exit_called, requests>>

\* client.rs:134-137  self.surface.get_current_texture().unwrap(); the view
DrawAcquire ==
  /\ pc = "draw_acquire"
  /\ \E ok \in BOOLEAN :
       IF ok
         THEN /\ output' = [width |-> surface_config.width,
                            height |-> surface_config.height]
              /\ steps' = Append(steps, "acquire")
              /\ pc' = "draw_select"
         ELSE /\ Abort
              /\ UNCHANGED <<output, steps>>
  /\ UNCHANGED <<event, setup, fields, enc, c, recorded, gpu, shell,
                 last_resize, close_delivered, exit_called, requests, indices>>

\* client.rs:139-144  let c = match self.color { .. }
DrawSelectColor ==
  /\ pc = "draw_select"
  /\ c' = ColorOf(color)
  /\ pc' = "draw_advance"
  /\ UNCHANGED <<event, setup, fields, enc, output, recorded, gpu, shell,
                 history>>

\* client.rs:146  self.color = (self.color + 1) % 3
DrawAdvance ==
  /\ pc = "draw_advance"
  /\ color' = NextColor(color)
  /\ steps' = Append(steps, "advance")
  /\ pc' = "draw_pass"
  /\ UNCHANGED <<event, setup, exit, prev_update, frame_target, config,
                 encoder, locals, gpu, shell, last_resize, close_delivered,
                 exit_called, requests, indices>>

\* A render pass that clears to the colour of the index as it is now.
DrawRenderPass_CurrentIndex ==
  /\ pc = "draw_pass"
  /\ recorded' = ColorOf(color)
  /\ steps' = Append(steps, "clear")
  /\ pc' = "draw_submit"
  /\ UNCHANGED <<event, setup, fields, enc, output, c, gpu, shell,
                 last_resize, close_delivered, exit_called, requests, indices>>

\* client.rs:148-162  begin_render_pass with LoadOp::Clear(c); drop
DrawRenderPass ==
  /\ pc = "draw_pass"
  /\ recorded' = c
  /\ steps' = Append(steps, "clear")
  /\ pc' = "draw_submit"
  /\ UNCHANGED <<event, setup, fields, enc, output, c, gpu, shell,
                 last_resize, close_delivered, exit_called, requests, indices>>

\* A submit that leaves the taken encoder unfinished.
DrawSubmit_NoFinish ==
  /\ pc = "draw_submit"
  /\ queue' = Append(queue, [encoder |-> enc, clear |-> recorded])
  /\ enc' = 0
  /\ recorded' = NoColor
  /\ steps' = Append(steps, "submit")
  /\ pc' = "draw_present"
  /\ UNCHANGED <<event, setup, fields, output, c, live, surface_config,
                 presented, shell, last_resize, close_delivered, exit_called,
                 requests, indices>>

\* client.rs:164  self.queue.submit(once(encoder.finish()))
DrawSubmit ==
  /\ pc = "draw_submit"
  /\ live' = live \ {enc}
  /\ queue' = Append(queue, [encoder |-> enc, clear |-> recorded])
  /\ enc' = 0
  /\ recorded' = NoColor
  /\ steps' = Append(steps, "submit")
  /\ pc' = "draw_present"
  /\ UNCHANGED <<event, setup, fields, output, c, surface_config, presented,
                 shell, last_resize, close_delivered, exit_called, requests,
                 indices>>

\* client.rs:165-166  output.present(); draw returns
DrawPresent ==
  /\ pc = "draw_present"
  /\ presented' = presented + 1
  /\ output' = NoSize
  /\ c' = NoColor
  /\ steps' = Append(steps, "present")
  /\ pc' = "request_redraw"
  /\ UNCHANGED <<event, setup, fields, enc, recorded, live, surface_config,
                 queue, shell, last_resize, close_delivered, exit_called,
                 requests, indices>>

\* A redraw handler that does not ask for the next redraw.
RequestRedraw_Missing ==
  /\ pc = "request_redraw"
  /\ pc' = "idle"
  /\ UNCHANGED <<event, setup, fields, locals, gpu, shell, history>>

\* client.rs:174  self.window.request_redraw()
RequestRedraw ==
  /\ pc = "request_redraw"
  /\ redraw_pending' = TRUE
  /\ requests' = requests + 1
  /\ pc' = "idle"
  /\ UNCHANGED <<event, setup, fields, locals, gpu, loop_exiting, clock,
                 last_resize, close_delivered, exit_called, indices, steps>>

\* ------------------------------------------------------------ behaviours

Next ==
  \/ MainEventLoopNew
  \/ CreateWindow
  \/ CreateSurface
  \/ RequestAdapter
  \/ RequestDevice
  \/ Construct
  \/ WindowEventClose
  \/ WindowEventResize
  \/ WindowEventRedraw
  \/ WindowEventOther
  \/ Update
  \/ DrawAcquire
  \/ DrawSelectColor
  \/ DrawAdvance
  \/ DrawRenderPass
  \/ DrawSubmit
  \/ DrawPresent
  \/ RequestRedraw
  \/ LoopExits

Spec == Init /\ [][Next]_vars

\* The windowing system delivers each redraw that was asked for, and the
\* thread runs each started handler to its end.
FairSpec ==
  /\ Spec
  /\ WF_vars(redraw_pending /\ WindowEventRedraw)
  /\ WF_vars(DrawAcquire \/ DrawSelectColor \/ DrawAdvance \/ DrawRenderPass
             \/ DrawSubmit \/ DrawPresent \/ RequestRedraw)

TypeOK ==
  /\ pc \in {"main", "new_window", "new_surface", "new_adapter", "new_device",
             "new_config", "idle", "request_redraw", "aborted", "exited"}
            \cup DrawPcs
  /\ event \in {"none", "close", "resize", "redraw", "other", "tick"}
  /\ exit \in BOOLEAN
  /\ color \in 0..3
  /\ prev_update \in 0..MaxTime /\ frame_target \in 0..MaxTime
  /\ clock \in 0..MaxTime
  /\ Len(indices) <= MaxFrames
  /\ Len(queue) <= MaxFrames

\* ------------------------------------------------------------ shorthands

\* The client exists and the process is still running.
Running == constructed /\ pc \notin {"aborted", "exited"}

\* No Draw is under way: every Draw that was started has returned.
DrawsDone == constructed /\ pc \in {"idle", "request_redraw", "exited"}

\* The size the surface is expected to have.
ExpectedSize == IF last_resize = NoSize THEN inner_size ELSE last_resize

IsPrefix(s, t) == Len(s) <= Len(t) /\ \A i \in 1..Len(s) : s[i] = t[i]

\* ------------------------------------------------------------ C1

\* C1: on a freshly initialized client the first four render passes clear to
\* red, green, blue, magenta, in this order.
C1_FirstFourColours ==
  \A k \in 1..Len(queue) :
    k <= 4 => queue[k].clear = <<Color(1, 0, 0, 1), Color(0, 1, 0, 1),
                                 Color(0, 0, 1, 1), Color(1, 0, 1, 1)>>[k]

\* ------------------------------------------------------------ C2

\* C2: the colour index has period exactly four under Draw: after four
\* consecutive draws it is back at the index the first of them started with,
\* after one, two or three draws it is not, and any four consecutive draws
\* start at four different indices.
C2_CycleLengthFour ==
  DrawsDone =>
    LET n == Len(indices)
    IN  /\ n >= 4 => color = indices[n - 3]
        /\ \A m \in 1..3 : n >= m => color # indices[n - m + 1]
        /\ n >= 4 => {indices[k] : k \in (n - 3)..n} = 0..3

\* ------------------------------------------------------------ C3

\* C3: a tick asks the event loop to exit exactly when a close request has
\* been delivered before it, whatever else was delivered in between.
C3_TickExitsIffClosed ==
  event = "tick" => (exit_called <=> close_delivered)

C3_Witness ==
  /\ event = "tick" /\ exit_called /\ close_delivered
  /\ last_resize # NoSize /\ Len(queue) >= 1

\* ------------------------------------------------------------ C4

\* C4: while a Draw runs, the surface is configured with the width and height
\* of the last resize event delivered (the inner size read at initialization
\* if there was none), and the texture it acquires has that size.
C4_DrawUsesLatestSize ==
  constructed /\ pc \in DrawPcs =>
    /\ surface_config.width = ExpectedSize.width
    /\ surface_config.height = ExpectedSize.height
    /\ config.width = ExpectedSize.width
    /\ config.height = ExpectedSize.height
    /\ output # NoSize => output = ExpectedSize

C4_Witness ==
  /\ pc = "draw_select"
  /\ last_resize # NoSize /\ last_resize # inner_size
  /\ output = last_resize
  /\ Len(queue) >= 1

\* ------------------------------------------------------------ C5

\* The resource a set-up call yields.
Resource(call) ==
  CASE call = "create_window" -> window
    [] call = "create_surface" -> surface
    [] call = "request_adapter" -> adapter
    [] call = "request_device" -> device

\* The set-up calls of Client::new, in the order they are made.
NewCalls == <<"create_window", "create_surface", "request_adapter",
              "request_device">>

\* C5: initialization is all-or-abort.  A set-up call that fails aborts the
\* process on the spot: no later call is made and no client is constructed.
\* A client exists only with window, surface, adapter and device all
\* present, callbacks run only on a constructed client, and no call is made
\* twice.
C5_InitAllOrAbort ==
  /\ \A i \in 1..Len(NewCalls) :
       attempts[NewCalls[i]] = 1 /\ Resource(NewCalls[i]) = "none" =>
         /\ pc = "aborted"
         /\ ~constructed
         /\ \A j \in (i + 1)..Len(NewCalls) : attempts[NewCalls[j]] = 0
  /\ constructed =>
       window = "ok" /\ surface = "ok" /\ adapter = "ok" /\ device = "ok"
  /\ (event # "none" \/ pc \in DrawPcs \cup {"idle", "request_redraw", "exited"})
       => constructed
  /\ \A call \in SetupCalls : attempts[call] <= 1

C5_Witness ==
  /\ pc = "aborted"
  /\ attempts["request_adapter"] = 1 /\ adapter = "none"
  /\ window = "ok" /\ surface = "ok"

\* ------------------------------------------------------------ C6

\* Each redraw handled so far drew once and then asked for one redraw.
C6_OneDrawOneRequest ==
  constructed =>
    /\ pc \in {"idle", "exited"} =>
         Len(indices) = presented /\ requests = presented
    /\ pc = "request_redraw" =>
         Len(indices) = presented /\ requests + 1 = presented
    /\ pc \in DrawPcs =>
         Len(indices) = requests + 1 /\ presented \in {requests, requests + 1}
    /\ redraw_pending => requests >= 1
    /\ pc = "idle" /\ requests >= 1 => redraw_pending

\* Only the handling of a redraw request draws or asks for a redraw.
C6_OnlyRedrawDraws ==
  (\/ Len(indices') # Len(indices)
   \/ queue' # queue
   \/ presented' # presented
   \/ requests' # requests
   \/ (redraw_pending' /\ ~redraw_pending))
    => event' = "redraw"

\* C6: handling one redraw request performs exactly one Draw and then exactly
\* one request for the next redraw; no other event and no tick draws or asks
\* for a redraw; the request stays armed until it is delivered; and as long
\* as requested redraws are delivered, every request (here up to MaxFrames
\* frames) leads to the next frame having been drawn and presented, the
\* handler standing at its own request for the following redraw, unless the
\* process aborts or the event loop exits.
C6_RedrawChain ==
  /\ []C6_OneDrawOneRequest
  /\ [][C6_OnlyRedrawDraws]_vars
  /\ (constructed /\ redraw_pending /\ Len(indices) < MaxFrames)
       ~> (pc \in {"request_redraw", "aborted", "exited"})

C6_Witness ==
  /\ pc = "idle" /\ event = "redraw"
  /\ redraw_pending
  /\ presented = 2 /\ requests = 2

\* ------------------------------------------------------------ C7

\* The states of a Draw in which the taken encoder is not yet finished.
Recording == {"draw_acquire", "draw_select", "draw_advance", "draw_pass",
              "draw_submit"}

\* C7 (as stated): in every state, the states inside Draw included, exactly
\* one unfinished command encoder exists.
C7_ExactlyOneEncoder ==
  Running => Cardinality(live) = 1

\* C7 (amended): the client's encoder field always holds an unfinished
\* encoder.  Outside Draw it is the only one.  Draw first takes it and puts a
\* fresh encoder in the field, so from then until the taken encoder is
\* finished and submitted two unfinished encoders exist, the taken one not
\* yet submitted; submitted encoders are never live again.
C7_EncoderSwap ==
  Running =>
    /\ encoder \in live
    /\ pc \in Recording =>
         /\ enc # encoder
         /\ live = {enc, encoder}
         /\ \A k \in 1..Len(queue) : queue[k].encoder # enc
    /\ pc \notin Recording => enc = 0 /\ live = {encoder}
    /\ \A k \in 1..Len(queue) : queue[k].encoder \notin live

C7_Witness ==
  /\ pc = "draw_submit"
  /\ Cardinality(live) = 2
  /\ Len(queue) >= 1

\* ------------------------------------------------------------ C8

\* C8 (as stated): within a Draw the colour index is advanced last, after
\* acquire, clear, submit and present.
C8_AdvanceLast ==
  IsPrefix(steps, <<"acquire", "clear", "submit", "present", "advance">>)

\* C8 (amended): within a Draw the texture is acquired, the clear colour of
\* the current index is selected, the index is advanced, and only then is the
\* clear pass (with the colour selected before the advance) recorded, the
\* command buffer submitted and the texture presented.  If the acquisition
\* fails the process aborts with no submit, no present and no advance for
\* that frame.
C8_DrawOrder ==
  constructed /\ Len(indices) >= 1 =>
    LET n == Len(indices)
        start == indices[n]
    IN  /\ IsPrefix(steps, <<"acquire", "advance", "clear", "submit", "present">>)
        /\ pc \in {"draw_acquire", "draw_select", "draw_advance"} =>
             color = start /\ Len(queue) = n - 1 /\ presented = n - 1
        /\ pc = "draw_advance" => c = ColorOf(start) /\ output # NoSize
        /\ pc \in {"draw_pass", "draw_submit"} =>
             color # start /\ Len(queue) = n - 1 /\ presented = n - 1
        /\ pc = "draw_submit" => recorded = ColorOf(start)
        /\ pc = "draw_present" =>
             color # start /\ Len(queue) = n /\ presented = n - 1
        /\ \A k \in 1..Len(queue) : queue[k].clear = ColorOf(indices[k])
        /\ pc = "aborted" =>
             /\ steps = <<>>
             /\ color = start
             /\ Len(queue) = n - 1
             /\ presented = n - 1

C8_Witness ==
  /\ pc = "draw_present"
  /\ steps = <<"acquire", "advance", "clear", "submit">>
  /\ Len(queue) = 2

\* ------------------------------------------------------------ C9

\* The terminate flag mirrors the delivery of a close request, and a tick
\* after a close request asks the loop to exit.
C9_FlagFollowsClose ==
  /\ constructed /\ ~close_delivered => ~exit
  /\ close_delivered => exit
  /\ event = "tick" /\ close_delivered => exit_called

\* The flag changes only by a close request setting it.
C9_OnlyCloseSets ==
  exit' # exit => (exit' = TRUE /\ event' = "close")

\* C9: the terminate flag is false after initialization, only a close request
\* sets it, and nothing (no window event of any kind, no tick) clears it
\* again, so every tick after the first close request asks for the exit.
C9_TerminatingAbsorbing ==
  /\ []C9_FlagFollowsClose
  /\ [][C9_OnlyCloseSets]_vars

C9_Witness ==
  /\ exit /\ close_delivered
  /\ event = "other"
  /\ last_resize # NoSize /\ Len(queue) >= 1 /\ exit_called

\* ------------------------------------------------------------ C10

\* What each kind of callback leaves alone.
C10_Frame ==
  /\ event' = "resize" =>
       /\ config'.format = config.format
       /\ config'.present_mode = config.present_mode
       /\ UNCHANGED <<exit, prev_update, frame_target, color, encoder>>
  /\ event' = "close" =>
       UNCHANGED <<prev_update, frame_target, config, color, encoder,
                   surface_config>>
  /\ event' = "redraw" =>
       UNCHANGED <<exit, prev_update, frame_target, config, surface_config>>
  /\ event' = "tick" =>
       UNCHANGED <<exit, frame_target, config, color, encoder, surface_config>>
  /\ event' = "other" =>
       UNCHANGED <<fields, surface_config>>

\* C10: a resize changes only the width and height of the surface
\* configuration, a close request only the terminate flag, a Draw only the
\* colour index and the encoder, a tick only the previous-update timestamp,
\* and an event of any other kind nothing.
C10_FrameEffects == [][C10_Frame]_vars

C10_Witness ==
  /\ event = "resize"
  /\ color # 0 /\ exit /\ prev_update # 0
  /\ config.width = last_resize.width /\ last_resize # inner_size
====
